---- MODULE Spec2Model ----
(***************************************************************************)
(* Shock Extraction Engine of Historical-Food-Shocks.                      *)
(*                                                                         *)
(*   calculate_food_shocks.py   calculate_changes_savgol,                  *)
(*                              calculate_changes_gaussian                 *)
(*   calculate_largest_shock.py calculate_largest_shock                    *)
(*   run_everything.py, plot_maps.py   the stages that run after it        *)
(*   get_FAO_data.py            main, filter_crops_of_interest             *)
(*   calculate_yearly_calories.py   calculate_calories,                    *)
(*                              aggregate_calories_by_country              *)
(*   calculate_historical_frequency.py   analyze_historical_frequency      *)
(*                                                                         *)
(* The smoothing functions and calculate_largest_shock are loops over the  *)
(* rows (entities) of a table; one action models one branch of one loop    *)
(* iteration. The other functions are one action per way of leaving them.  *)
(*                                                                         *)
(* A cell of a table is a tuple of integers:                               *)
(*   <<0>>        Python None                                              *)
(*   <<1>>        NaN (a missing value)                                    *)
(*   <<2, n, d>>  the number n/d, d > 0 and n/d in lowest terms;           *)
(*                <<2, 1, 0>> is +inf and <<2, -1, 0>> is -inf.            *)
(***************************************************************************)
EXTENDS Integers, Sequences, FiniteSets, TLC

\* Number of year columns of the tables given to the smoothing functions.
NYears == 5

\* Number of rows (entities) of the tables given to the smoothing functions.
NEntities == 2

\* Series shapes 0..MaxShape are drawn for the rows (see Value).
MaxShape == 1

\* Number of year columns of the wide tables given to
\* calculate_changes_gaussian, which treats 10 valid points and more apart.
GaussYears == 10

None == <<0>>

NaN == <<1>>

IsNum(c) == c[1] = 2

Abs(n) == IF n < 0 THEN -n ELSE n

RECURSIVE GCD(_, _)
GCD(a, b) == IF b = 0 THEN a ELSE GCD(b, a % b)

\* The float n/d as a cell: x/0 is +-inf, 0/0 is NaN (numpy semantics).
Num(n, d) ==
    IF d = 0
    THEN IF n = 0 THEN NaN ELSE <<2, IF n > 0 THEN 1 ELSE -1, 0>>
    ELSE LET g == GCD(Abs(n), Abs(d))
             s == IF d < 0 THEN -1 ELSE 1
         IN  <<2, (s * n) \div g, (s * d) \div g>>

\* Float arithmetic on finite cells; common factors are cancelled before
\* multiplying, which keeps the intermediate integers small.
RSub(x, y) ==
    LET g == GCD(x[3], y[3])
    IN  Num(x[2] * (y[3] \div g) - y[2] * (x[3] \div g), (x[3] \div g) * y[3])

RMul(x, y) ==
    LET g == GCD(Abs(x[2]), y[3])
        h == GCD(Abs(y[2]), x[3])
    IN  IF x[2] = 0 \/ y[2] = 0 THEN <<2, 0, 1>>
        ELSE Num((x[2] \div g) * (y[2] \div h), (x[3] \div h) * (y[3] \div g))

RDiv(x, y) ==
    IF y[2] = 0 THEN Num(x[2], 0)
    ELSE IF y[2] < 0 THEN RMul(x, <<2, -y[3], -y[2]>>)
         ELSE RMul(x, <<2, y[3], y[2]>>)

\* x < y on cells, as Python compares floats: any comparison with NaN is False.
Lt(x, y) == IsNum(x) /\ IsNum(y) /\ x[3] > 0 /\ y[3] > 0 /\ x[2] * y[3] < y[2] * x[3]

Years == 1..NYears

\* yields.notna()
notna(yields) == {y \in DOMAIN yields : yields[y] # NaN}

RECURSIVE SortedSeq(_)
\* The elements of a finite set of integers, ascending.
SortedSeq(S) ==
    IF S = {} THEN <<>>
    ELSE LET m == CHOOSE x \in S : \A z \in S : x <= z
         IN  <<m>> \o SortedSeq(S \ {m})

\* yields[valid_mask]: the labels of the valid years in column order, and
\* the values at those labels.
ValidLabels(yields) == SortedSeq(notna(yields))

ValidValues(yields) ==
    LET lab == ValidLabels(yields)
    IN  [k \in 1..Len(lab) |-> yields[lab[k]]]

(***************************************************************************)
(* scipy.signal.savgol_filter(x, window_length, polyorder), mode='interp'. *)
(* The least-squares polynomial of a window is written on the discrete     *)
(* orthogonal (Gram) polynomials of the window: for each degree k the      *)
(* vector v and its squared norm n.                                        *)
(***************************************************************************)
GramBasis(w) ==
    IF w = 3
    THEN << [v |-> <<1, 1, 1>>, n |-> 3],
            [v |-> <<-1, 0, 1>>, n |-> 2],
            [v |-> <<1, -2, 1>>, n |-> 6] >>
    ELSE IF w = 5
    THEN << [v |-> <<1, 1, 1, 1, 1>>, n |-> 5],
            [v |-> <<-2, -1, 0, 1, 2>>, n |-> 10],
            [v |-> <<2, -1, -2, -1, 2>>, n |-> 14],
            [v |-> <<-1, 2, 0, -2, 1>>, n |-> 10],
            [v |-> <<1, -4, 6, -4, 1>>, n |-> 70] >>
    ELSE \* w = 15, the degrees 0 to 3
         << [v |-> <<1, 1, 1, 1, 1, 1, 1, 1, 1, 1, 1, 1, 1, 1, 1>>, n |-> 15],
            [v |-> <<-7, -6, -5, -4, -3, -2, -1, 0, 1, 2, 3, 4, 5, 6, 7>>, n |-> 280],
            [v |-> <<91, 52, 19, -8, -29, -44, -53, -56, -53, -44, -29, -8, 19, 52, 91>>,
             n |-> 37128],
            [v |-> <<-91, -13, 35, 58, 61, 49, 27, 0, -27, -49, -61, -58, -35, 13, 91>>,
             n |-> 39780] >>

\* A common denominator of the norms of GramBasis(w).
GramDen(w) == IF w = 3 THEN 6 ELSE IF w = 5 THEN 70 ELSE 556920

RECURSIVE SumTo(_, _)
\* f[1] + ... + f[n]
SumTo(f, n) == IF n = 0 THEN 0 ELSE f[n] + SumTo(f, n - 1)

\* The polynomial of order p fitted to the w integer samples ys, evaluated
\* at position j of the window (1..w).
PolyFitMut(ys, w, p, j) == Num(ys[j], 1)

PolyFit(ys, w, p, j) ==
    LET B == GramBasis(w)
        top == IF p + 1 < w THEN p + 1 ELSE w
        dot(k) == SumTo([i \in 1..w |-> ys[i] * B[k].v[i]], w)
        term == [k \in 1..top |-> dot(k) * B[k].v[j] * (GramDen(w) \div B[k].n)]
    IN  Num(SumTo(term, top), GramDen(w))

\* The ValueErrors of savgol_filter: "polyorder must be less than
\* window_length." (savgol_coeffs) and, in mode 'interp', "window_length must
\* be less than or equal to the size of x."; n is the size of x.
SavgolRaisesMut(n, window, polyorder) == FALSE

SavgolRaises(n, window, polyorder) == polyorder >= window \/ window > n

\* The smoothed values of x (a sequence of finite cells with denominator 1):
\* the window centred on i in the interior, and the polynomial fitted to the
\* first (last) window_length samples at the halflen first (last) positions.
savgol_filter(x, window, polyorder) ==
    LET n == Len(x)
        h == (window - 1) \div 2
        ys(from) == [i \in 1..window |-> x[from + i - 1][2]]
    IN  [i \in 1..n |->
            IF i <= h THEN PolyFit(ys(1), window, polyorder, i)
            ELSE IF i > n - h
                 THEN PolyFit(ys(n - window + 1), window, polyorder, i - (n - window))
                 ELSE PolyFit(ys(i - h), window, polyorder, h + 1)]

\* pct_change = ((valid_yields - smoothed_yields) / smoothed_yields) * 100
PctChangeMut(valid, smoothed) ==
    [k \in 1..Len(valid) |->
        LET q == RDiv(valid[k], smoothed[k])
        IN  IF IsNum(q) /\ q[3] > 0 THEN RMul(q, <<2, 100, 1>>) ELSE q]

PctChange(valid, smoothed) ==
    [k \in 1..Len(valid) |->
        LET q == RDiv(RSub(valid[k], smoothed[k]), smoothed[k])
        IN  IF IsNum(q) /\ q[3] > 0 THEN RMul(q, <<2, 100, 1>>) ELSE q]

\* pct_changes.loc[country] = pct_change: assignment aligned on the year
\* labels; the years not in pct_change's index become NaN.
AlignRowMut(yields, pct) ==
    [y \in DOMAIN yields |-> IF y <= Len(pct) THEN pct[y] ELSE NaN]

AlignRow(yields, pct) ==
    LET lab == ValidLabels(yields)
    IN  [y \in DOMAIN yields |->
            IF yields[y] = NaN THEN NaN
            ELSE pct[CHOOSE k \in 1..Len(lab) : lab[k] = y]]

\* pd.DataFrame(index=data.index, columns=data.columns): all cells NaN.
EmptyFrameMut(table) ==
    [c \in DOMAIN table |-> [y \in DOMAIN table[c] \ {Len(table[c])} |-> NaN]]

EmptyFrame(table) == [c \in DOMAIN table |-> [y \in DOMAIN table[c] |-> NaN]]

(***************************************************************************)
(* State of one call of calculate_changes_savgol / _gaussian.              *)
(***************************************************************************)
VARIABLES
    method,         \* the function called: "savgol", "gaussian" or "largest_shock"
    args,           \* the arguments of the call, as the caller passed them
    data,           \* the input table: entity -> year -> cell
    pc,             \* where the function is: "entry", "loop", "walk", "record",
                    \* "returned", "saved" or "raised"; where run_everything
                    \* is after it: "plot_maps", "finished" or "exited"
    country,        \* position of the for loop in the index of the table
    window_length,  \* the parameter window_length, which line 42 reassigns
    pct_changes,    \* the result table
    calls,          \* the calls of the scipy filter made so far, in order
    log,            \* the lines printed so far
    df,             \* calculate_largest_shock: the table of yield changes
    calories_df,    \* the table of calories, on the entities it holds
    sorted_shocks,  \* the year labels of the entity in sort_values() order
    walk,           \* position of the validation loop in sorted_shocks
    largest_valid_shock,
    year_of_shock,
    results,        \* the list of records appended so far
    via,            \* for each record, the branch that produced it
    csv,            \* results/largest_crop_shock_by_country.csv
    script,         \* run_everything: position of the for loop in scripts
    runs,           \* the scripts started so far, in order
    returncodes,    \* the return codes of the scripts that have ended, in order
    exit_code,      \* <<>>, or the argument of sys.exit
    files,          \* the files get_FAO_data.py has written
    df_agg,         \* aggregate_calories_by_country: the table returned
    filtered_df     \* filter_crops_of_interest: the table returned

changesVars == <<data, window_length, pct_changes, calls>>

shockVars ==
    <<df, calories_df, sorted_shocks, walk, largest_valid_shock, year_of_shock,
      results, via, csv>>

moreVars == <<script, runs, returncodes, exit_code, files, df_agg, filtered_df>>

vars == <<method, args, pc, country, log, changesVars, shockVars, moreVars>>

\* calculate_largest_shock has not been called.
ShockIdle ==
    /\ df = <<>>
    /\ calories_df = <<>>
    /\ sorted_shocks = <<>>
    /\ walk = 0
    /\ largest_valid_shock = None
    /\ year_of_shock = None
    /\ results = <<>>
    /\ via = <<>>
    /\ csv = <<>>

\* run_everything, aggregate_calories_by_country and filter_crops_of_interest
\* have not been called.
MoreIdle ==
    /\ script = 0
    /\ runs = <<>>
    /\ returncodes = <<>>
    /\ exit_code = <<>>
    /\ files = {}
    /\ df_agg = <<>>
    /\ filtered_df = <<>>

\* The value of the series of shape s in year y; shape 0 is a constant series.
Value(s, y) == 4 + ((s * y * y) % 5)

\* Rows that give a baseline of 0: the series 1, 0, 5 (the straight line
\* fitted to it is 0 in the first year) and the series that is 0 everywhere.
ZeroRows ==
    { [y \in Years |-> IF y > 3 THEN NaN
                       ELSE IF y = 1 THEN Num(1, 1)
                       ELSE IF y = 2 THEN Num(0, 1) ELSE Num(5, 1)],
      [y \in Years |-> Num(0, 1)] }

\* A row: any set of years missing, the others following one of the shapes;
\* or one of ZeroRows.
Rows ==
    { [y \in Years |-> IF y \in m THEN Num(Value(s, y), 1) ELSE NaN] :
        m \in SUBSET Years, s \in 0..MaxShape } \cup ZeroRows

\* The row whose first n years hold a value and whose other years are missing.
RefRow(n) == [y \in Years |-> IF y <= n THEN Num(Value(1, y), 1) ELSE NaN]

\* The input tables: one row is any row of Rows, every other row is a
\* RefRow with any number of valid years.
Tables ==
    { [c \in 1..NEntities |-> IF c = k THEN r ELSE RefRow(ns[c])] :
        k \in 1..NEntities, r \in Rows, ns \in [1..NEntities -> 0..NYears] }

\* The (window_length, polyorder) pairs the function is called with.
SavgolArgs == [window_length : {3, 5}, polyorder : {1, 3}, sigma : {0}]

InitSavgol ==
    /\ method = "savgol"
    /\ args \in SavgolArgs
    /\ data \in Tables
    /\ pc = "entry"
    /\ country = 1
    /\ window_length = args.window_length
    /\ pct_changes = <<>>
    /\ calls = <<>>
    /\ log = {}
    /\ ShockIdle
    /\ MoreIdle

\* len(valid_yields)
NValid(yields) == Cardinality(notna(yields))

\* Line 35: if len(valid_yields) <= 2.
TooFewValidMut(n) == n <= 1

TooFewValid(n) == n <= 2

\* Line 42: len(valid_yields) if it is odd, else len(valid_yields) - 1.
ShrunkWindowMut(n) == IF n % 2 = 1 THEN n ELSE n + 1

ShrunkWindow(n) == IF n % 2 = 1 THEN n ELSE n - 1

\* Lines 41-43: the window used for a series of n valid points when the
\* variable window_length holds w.
AdjustedWindowMut(n, w) == w

AdjustedWindow(n, w) == IF n < w THEN ShrunkWindow(n) ELSE w

\* Lines 45-52: the row written for the series yields, filtered with window w.
SavgolRow(yields, w, polyorder) ==
    LET valid_yields == ValidValues(yields)
    IN  AlignRow(yields,
                 PctChange(valid_yields, savgol_filter(valid_yields, w, polyorder)))

\* Lines 20-21.
SavgolBadArgs ==
    /\ method = "savgol" /\ pc = "entry"
    /\ args.polyorder >= args.window_length
    /\ pc' = "raised"
    /\ UNCHANGED <<method, args, data, country, window_length, pct_changes, calls, log, shockVars,
                   moreVars>>

\* Line 24.
SavgolBegin ==
    /\ method = "savgol" /\ pc = "entry"
    /\ ~(args.polyorder >= args.window_length)
    /\ pct_changes' = EmptyFrame(data)
    /\ pc' = "loop"
    /\ UNCHANGED <<method, args, data, country, window_length, calls, log, shockVars,
                   moreVars>>

\* Lines 35-37: too few valid points, the row of the entity stays as it is.
SavgolSkip ==
    /\ method = "savgol" /\ pc = "loop" /\ country <= Len(data)
    /\ TooFewValid(NValid(data[country]))
    /\ log' = log \cup {<<"Skipping", country, 0>>}
    /\ country' = country + 1
    /\ UNCHANGED <<method, args, data, pc, window_length, pct_changes, calls, shockVars,
                   moreVars>>

\* What lines 41-43 print.
AdjustLog(n, w) ==
    IF n < w THEN {<<"Adjusted window length", country, ShrunkWindow(n)>>} ELSE {}

\* The record of one call of the scipy filter.
Call(c, x, w, polyorder, sigma, raised) ==
    [country |-> c, x |-> x, window_length |-> w, polyorder |-> polyorder,
     sigma |-> sigma, raised |-> raised]

\* Lines 41-52 when savgol_filter returns.
SavgolSmooth ==
    /\ method = "savgol" /\ pc = "loop" /\ country <= Len(data)
    /\ LET yields == data[country]
           n == NValid(yields)
           w == AdjustedWindow(n, window_length)
       IN  /\ ~TooFewValid(n)
           /\ ~SavgolRaises(n, w, args.polyorder)
           /\ window_length' = w
           /\ log' = log \cup AdjustLog(n, window_length)
           /\ calls' = Append(calls, Call(country, ValidValues(yields), w,
                                          args.polyorder, 0, FALSE))
           /\ pct_changes' =
                [pct_changes EXCEPT ![country] = SavgolRow(yields, w, args.polyorder)]
    /\ country' = country + 1
    /\ UNCHANGED <<method, args, data, pc, shockVars, moreVars>>

\* Lines 41-46 when savgol_filter raises ValueError: the exception leaves
\* calculate_changes_savgol, which returns nothing.
SavgolFilterError ==
    /\ method = "savgol" /\ pc = "loop" /\ country <= Len(data)
    /\ LET yields == data[country]
           n == NValid(yields)
           w == AdjustedWindow(n, window_length)
       IN  /\ ~TooFewValid(n)
           /\ SavgolRaises(n, w, args.polyorder)
           /\ window_length' = w
           /\ log' = log \cup AdjustLog(n, window_length)
           /\ calls' = Append(calls, Call(country, ValidValues(yields), w,
                                          args.polyorder, 0, TRUE))
    /\ pc' = "raised"
    /\ UNCHANGED <<method, args, data, country, pct_changes, shockVars, moreVars>>

\* Line 54.
SavgolReturn ==
    /\ method = "savgol" /\ pc = "loop" /\ country > Len(data)
    /\ pc' = "returned"
    /\ UNCHANGED <<method, args, data, country, window_length, pct_changes, calls, log, shockVars,
                   moreVars>>

NextSavgol ==
    \/ SavgolBadArgs
    \/ SavgolBegin
    \/ SavgolSkip
    \/ SavgolSmooth
    \/ SavgolFilterError
    \/ SavgolReturn

SpecSavgol == InitSavgol /\ [][NextSavgol]_vars

(***************************************************************************)
(* calculate_changes_gaussian. sigma is held in tenths (30 is sigma=3.0);  *)
(* the configured sigmas above 0.5 are whole numbers, so sigma * N / 10.0  *)
(* is a whole number of tenths whenever it is above the floor of 0.5.      *)
(* Kernel weights are held in 1/10000.                                     *)
(***************************************************************************)
RECURSIVE ExpTaylor(_, _, _)
\* The terms n.. of the series of exp(-f), f in [0, 1) held in 1/10000;
\* term is the term n - 1.
ExpTaylor(f, n, term) ==
    IF n > 8 THEN 0
    ELSE LET t == -((term * f) \div (10000 * n))
         IN  t + ExpTaylor(f, n + 1, t)

RECURSIVE ExpWhole(_)
\* exp(-q) in 1/10000 for a whole number q (3679 is exp(-1)).
ExpWhole(q) == IF q = 0 THEN 10000 ELSE (ExpWhole(q - 1) * 3679) \div 10000

\* numpy.exp(-num/den) in 1/10000.
ExpNeg(num, den) ==
    LET f == ((num % den) * 10000) \div den
    IN  (ExpWhole(num \div den) * (10000 + ExpTaylor(f, 1, 10000))) \div 10000

\* Lines 95-97: effective_sigma for n valid points.
EffectiveSigmaFloorMut(sigma, n) ==
    IF n < 10
    THEN IF sigma * n > 100 THEN (sigma * n) \div 10 ELSE 10
    ELSE sigma

EffectiveSigmaMut(sigma, n) ==
    IF (sigma * n) \div 10 > 5 THEN (sigma * n) \div 10 ELSE 5

EffectiveSigma(sigma, n) ==
    IF n < 10
    THEN IF sigma * n > 50 THEN (sigma * n) \div 10 ELSE 5
    ELSE sigma

\* scipy.ndimage.gaussian_filter1d: lw = int(truncate * sd + 0.5), truncate = 4.0.
KernelRadius(sigma) == (4 * sigma + 5) \div 10

\* _gaussian_kernel1d: exp(-0.5 / sigma^2 * k^2), before normalisation.
KernelWeight(sigma, k) == ExpNeg(100 * k * k, 2 * sigma * sigma)

\* gaussian_filter1d(x, sigma, mode='nearest'): the normalised kernel
\* correlated with x, x extended by its first and last value.
gaussian_filter1d(x, sigma) ==
    LET n == Len(x)
        lw == KernelRadius(sigma)
        at(i) == IF i < 1 THEN x[1][2] ELSE IF i > n THEN x[n][2] ELSE x[i][2]
        wt == [j \in 1..(2 * lw + 1) |-> KernelWeight(sigma, Abs(j - lw - 1))]
        total == SumTo(wt, 2 * lw + 1)
    IN  [i \in 1..n |->
            Num(SumTo([j \in 1..(2 * lw + 1) |-> wt[j] * at(i + j - lw - 1)],
                      2 * lw + 1),
                total)]

\* Lines 100-115: the row written for the series yields.
GaussRow(yields, sigma) ==
    LET valid_yields == ValidValues(yields)
    IN  AlignRow(yields,
                 PctChange(valid_yields, gaussian_filter1d(valid_yields, sigma)))

\* The sigma the function is called with: 0.3, 1.0 or 3.0.
GaussArgs == [window_length : {0}, polyorder : {0}, sigma : {3, 10, 30}]

\* The tables of NYears year columns given to calculate_changes_gaussian:
\* one row is any row of Rows, every other row is a RefRow that is skipped
\* (2 valid years) or complete.
GaussTables ==
    { [c \in 1..NEntities |-> IF c = k THEN r ELSE RefRow(ns[c])] :
        k \in 1..NEntities, r \in Rows, ns \in [1..NEntities -> {2, NYears}] }

\* The row of GaussYears year columns whose first n years hold a value.
WideRow(n) == [y \in 1..GaussYears |-> IF y <= n THEN Num(Value(1, y), 1) ELSE NaN]

\* The tables of GaussYears year columns: one row is a WideRow with any
\* number of valid years, every other row is a WideRow that is skipped or
\* complete.
WideTables ==
    { [c \in 1..NEntities |-> IF c = k THEN WideRow(n) ELSE WideRow(ns[c])] :
        k \in 1..NEntities, n \in 0..GaussYears,
        ns \in [1..NEntities -> {2, GaussYears}] }

InitGauss ==
    /\ method = "gaussian"
    /\ args \in GaussArgs
    /\ data \in GaussTables \cup WideTables
    /\ pc = "entry"
    /\ country = 1
    /\ window_length = 0
    /\ pct_changes = <<>>
    /\ calls = <<>>
    /\ log = {}
    /\ ShockIdle
    /\ MoreIdle

\* Line 89: if len(valid_yields) <= 2.
GaussTooFewValid(n) == n <= 2

\* Line 77.
GaussBegin ==
    /\ method = "gaussian" /\ pc = "entry"
    /\ pct_changes' = EmptyFrame(data)
    /\ pc' = "loop"
    /\ UNCHANGED <<method, args, data, country, window_length, calls, log, shockVars,
                   moreVars>>

\* Lines 89-91.
GaussSkip ==
    /\ method = "gaussian" /\ pc = "loop" /\ country <= Len(data)
    /\ GaussTooFewValid(NValid(data[country]))
    /\ log' = log \cup {<<"Skipping", country, 0>>}
    /\ country' = country + 1
    /\ UNCHANGED <<method, args, data, pc, window_length, pct_changes, calls, shockVars,
                   moreVars>>

\* Lines 93-115.
GaussSmooth ==
    /\ method = "gaussian" /\ pc = "loop" /\ country <= Len(data)
    /\ LET yields == data[country]
           n == NValid(yields)
           effective_sigma == EffectiveSigma(args.sigma, n)
       IN  /\ ~GaussTooFewValid(n)
           /\ log' = log \cup
                (IF n < 10 THEN {<<"Adjusted sigma", country, effective_sigma>>} ELSE {})
           /\ calls' = Append(calls, Call(country, ValidValues(yields), 0, 0,
                                          effective_sigma, FALSE))
           /\ pct_changes' =
                [pct_changes EXCEPT ![country] = GaussRow(yields, effective_sigma)]
    /\ country' = country + 1
    /\ UNCHANGED <<method, args, data, pc, window_length, shockVars, moreVars>>

\* Line 117.
GaussReturn ==
    /\ method = "gaussian" /\ pc = "loop" /\ country > Len(data)
    /\ pc' = "returned"
    /\ UNCHANGED <<method, args, data, country, window_length, pct_changes, calls, log, shockVars,
                   moreVars>>

NextGauss ==
    \/ GaussBegin
    \/ GaussSkip
    \/ GaussSmooth
    \/ GaussReturn

SpecGauss == InitGauss /\ [][NextGauss]_vars

\* A call of either smoothing function.
InitChanges == InitSavgol \/ InitGauss

NextChanges == NextSavgol \/ NextGauss

SpecChanges == InitChanges /\ [][NextChanges]_vars

(***************************************************************************)
(* Properties of calculate_changes_savgol and calculate_changes_gaussian.  *)
(***************************************************************************)

\* The largest odd integer <= n, for n >= 1.
LargestOddLE(n) == CHOOSE k \in 1..n : (k % 2) = 1 /\ k + 2 > n

\* The rows the loop is done with.
Processed == IF pc = "entry" THEN {} ELSE 1..(country - 1)

\* The calls of the filter made for entity c.
CallsOf(c) == {i \in 1..Len(calls) : calls[i].country = c}

AllNaN(row) == \A y \in DOMAIN row : row[y] = NaN

\* C1: every window passed to savgol_filter is the configured window_length
\* when that is <= the entity's number N of valid points, and the largest odd
\* integer <= N otherwise, whatever entities were processed before.
ClaimC1 ==
    \A i \in 1..Len(calls) :
        LET n == Len(calls[i].x)
        IN  calls[i].window_length =
                IF args.window_length <= n THEN args.window_length ELSE LargestOddLE(n)

\* The row a call with the same arguments writes for the series yields when
\* the table holds no other entity.
AloneRow(yields) ==
    IF TooFewValid(NValid(yields)) THEN [y \in DOMAIN yields |-> NaN]
    ELSE SavgolRow(yields, AdjustedWindow(NValid(yields), args.window_length),
                   args.polyorder)

\* C2: the deviation row of an entity is the row the same call computes for
\* that entity alone: it does not depend on the other entities of the table.
ClaimC2 ==
    method = "savgol" => \A c \in Processed : pct_changes[c] = AloneRow(data[c])

\* C3 as stated: with polyorder < window_length the call never fails.
ClaimC3 == args.polyorder < args.window_length => pc # "raised"

\* Some entity's shrunk window does not exceed polyorder.
ShrinksBelowOrder ==
    \E c \in 1..Len(data) :
        LET n == NValid(data[c])
        IN  n >= 3 /\ n < args.window_length /\ LargestOddLE(n) <= args.polyorder

\* C3 amended: with polyorder < window_length the call fails exactly when
\* some entity has 3 <= N < window_length valid points and the largest odd
\* integer <= N is <= polyorder; otherwise the table is returned and every
\* entity was either skipped (N <= 2, no deviation) or passed to the filter.
AmendedC3 ==
    (pc \in {"returned", "raised"} /\ args.polyorder < args.window_length) =>
        /\ (pc = "raised") <=> ShrinksBelowOrder
        /\ pc = "returned" =>
             \A c \in 1..Len(data) :
                IF NValid(data[c]) <= 2
                THEN CallsOf(c) = {} /\ AllNaN(pct_changes[c])
                ELSE /\ \E i \in CallsOf(c) : ~calls[i].raised
                     /\ \A y \in Years :
                          /\ data[c][y] = NaN => pct_changes[c][y] = NaN
                          /\ pct_changes[c][y] = NaN => data[c][y] \in {NaN, Num(0, 1)}

\* A call returned a table in which one entity was skipped and another was
\* filtered with a shrunk window.
WitnessC3 ==
    /\ pc = "returned" /\ args.polyorder < args.window_length
    /\ \E c \in 1..Len(data) : NValid(data[c]) <= 2
    /\ \E i \in 1..Len(calls) :
         Len(calls[i].x) < args.window_length /\ ~calls[i].raised

\* C4: when the shrunk window of an entity is <= polyorder, the filter call
\* raises, the function returns no table and the entity gets no deviation.
TheoremC4 ==
    \A i \in 1..Len(calls) :
        (/\ Len(calls[i].x) < args.window_length
         /\ calls[i].polyorder >= calls[i].window_length) =>
            /\ calls[i].raised
            /\ i = Len(calls)
            /\ pc = "raised"
            /\ AllNaN(pct_changes[calls[i].country])

\* A call with polyorder < window_length raised on a shrunk window.
WitnessC4 ==
    /\ pc = "raised" /\ args.polyorder < args.window_length
    /\ calls # <<>>
    /\ calls[Len(calls)].polyorder >= calls[Len(calls)].window_length

\* C5: an entity with 2 or fewer valid points is never passed to the filter
\* and its row holds no deviation; the loop goes on, so a call that returns
\* has passed every entity with 3 or more valid points to the filter.
TheoremC5 ==
    /\ \A c \in Processed :
         NValid(data[c]) <= 2 => CallsOf(c) = {} /\ AllNaN(pct_changes[c])
    /\ \A i \in 1..Len(calls) : Len(calls[i].x) >= 3
    /\ pc = "returned" =>
         \A c \in 1..Len(data) : NValid(data[c]) >= 3 => CallsOf(c) # {}

\* A 2-point entity was skipped and a later entity was filtered.
WitnessC5 ==
    /\ pc = "returned"
    /\ \E c \in 1..Len(data), i \in 1..Len(calls) :
         /\ NValid(data[c]) = 2 /\ AllNaN(pct_changes[c])
         /\ calls[i].country > c /\ ~AllNaN(pct_changes[calls[i].country])

(***************************************************************************)
(* calculate_largest_shock. Both tables are read from the files the        *)
(* earlier stages wrote, so the row of an entity in the table of yield     *)
(* changes is the row calculate_changes_* wrote for its row of calories:   *)
(* all NaN when the calories hold 2 or fewer values, and NaN exactly at    *)
(* the years without calories otherwise. Year labels are 1..ShockYears.    *)
(***************************************************************************)

\* Number of year columns of the two tables.
ShockYears == 3

\* Number of rows of the table of yield changes.
NCountries == 2

SYears == 1..ShockYears

\* The yield changes (percent) and the calories the rows are drawn from.
DevValues == {-2, -1, 0, 1}

CalValues == {1, 2}

AllMissing == [y \in SYears |-> NaN]

CalRows == [SYears -> {NaN} \cup {Num(v, 1) : v \in CalValues}]

\* The rows of yield changes that go with a row of calories.
DevRowsFor(cal) ==
    IF NValid(cal) <= 2 THEN {AllMissing}
    ELSE { [y \in SYears |-> IF cal[y] = NaN THEN NaN ELSE Num(f[y], 1)] :
              f \in [SYears -> DevValues] }

\* An entity of the input: its yield changes, its calories, and whether the
\* table of calories holds it.
Entities ==
    UNION { { <<d, cal, TRUE>> : d \in DevRowsFor(cal) } : cal \in CalRows }
        \cup {<<AllMissing, AllMissing, FALSE>>}

\* Reference entities: one whose largest shock (year 2) is a real decrease,
\* and one that the table of calories does not hold.
RefEntities ==
    { <<[y \in SYears |-> IF y = 2 THEN Num(-1, 1) ELSE Num(0, 1)],
        [y \in SYears |-> IF y = 1 THEN Num(2, 1) ELSE Num(1, 1)], TRUE>>,
      <<AllMissing, AllMissing, FALSE>> }

\* The inputs: one entity is any of Entities, every other is a reference.
ShockInputs ==
    { [c \in 1..NCountries |-> IF c = k THEN e ELSE refs[c]] :
        k \in 1..NCountries, e \in Entities, refs \in [1..NCountries -> RefEntities] }

\* Lines 49-62.
InitShock ==
    /\ method = "largest_shock"
    /\ args = <<>>
    /\ \E inp \in ShockInputs :
         /\ df = [c \in 1..NCountries |-> inp[c][1]]
         /\ calories_df = [c \in {x \in 1..NCountries : inp[x][3]} |-> inp[c][2]]
    /\ pc = "loop"
    /\ country = 1
    /\ log = {}
    /\ sorted_shocks = <<>>
    /\ walk = 0
    /\ largest_valid_shock = None
    /\ year_of_shock = None
    /\ results = <<>>
    /\ via = <<>>
    /\ csv = <<>>
    /\ data = <<>>
    /\ window_length = 0
    /\ pct_changes = <<>>
    /\ calls = <<>>
    /\ MoreIdle

\* The permutations of a finite set.
RECURSIVE Perms(_)
Perms(S) ==
    IF S = {} THEN {<<>>}
    ELSE UNION { { <<x>> \o q : q \in Perms(S \ {x}) } : x \in S }

\* Series.sort_values(): the labels of the values in ascending order, in any
\* order among equal values (quicksort is not stable), then the labels of
\* the NaN in column order.
SortValuesMut(row) ==
    { q \o SortedSeq(DOMAIN row \ notna(row)) :
        q \in { r \in Perms(notna(row)) :
                  \A i \in 1..(Len(r) - 1) : ~Lt(row[r[i]], row[r[i + 1]]) } }

SortValues(row) ==
    { q \o SortedSeq(DOMAIN row \ notna(row)) :
        q \in { r \in Perms(notna(row)) :
                  \A i \in 1..(Len(r) - 1) : ~Lt(row[r[i + 1]], row[r[i]]) } }

\* Line 90: shock_value >= 0, which is False for NaN.
NotNegativeMut(v) == IsNum(v) /\ v[2] > 0

NotNegative(v) == IsNum(v) /\ v[2] >= 0

\* Line 105: current_calories < previous_calories.
CaloriesDecreased(current, previous) == Lt(current, previous)

\* Series.min(): the smallest value that is not NaN, NaN when there is none.
SeriesMin(row) ==
    IF notna(row) = {} THEN NaN
    ELSE row[CHOOSE y \in notna(row) : \A z \in notna(row) : ~Lt(row[z], row[y])]

\* Series.idxmin(): the first label that holds the minimum.
SeriesIdxMin(row) ==
    CHOOSE y \in notna(row) :
        /\ row[y] = SeriesMin(row)
        /\ \A z \in notna(row) : row[z] = SeriesMin(row) => y <= z

\* Lines 65-68: the entity is not in the table of calories.
ShockNotInCalories ==
    /\ method = "largest_shock" /\ pc = "loop" /\ country <= Len(df)
    /\ country \notin DOMAIN calories_df
    /\ log' = log \cup {<<"Warning", country, 0>>}
    /\ country' = country + 1
    /\ UNCHANGED <<method, args, pc, changesVars, shockVars, moreVars>>

\* Lines 70-85: sort the yield changes of the entity.
ShockSort ==
    /\ method = "largest_shock" /\ pc = "loop" /\ country <= Len(df)
    /\ country \in DOMAIN calories_df
    /\ sorted_shocks' \in SortValues(df[country])
    /\ walk' = 1
    /\ largest_valid_shock' = None
    /\ year_of_shock' = None
    /\ pc' = "walk"
    /\ UNCHANGED <<method, args, country, log, changesVars, df, calories_df, results,
                   via, csv, moreVars>>

\* The candidate of the validation loop: its year label and its value.
Year == sorted_shocks[walk]

ShockValue == df[country][Year]

\* Line 94: list(country_calories.index).index(year), counted from 0.
YearIdx == Year - 1

WalkFrame ==
    UNCHANGED <<method, args, country, log, changesVars, df, calories_df,
                sorted_shocks, results, via, csv, moreVars>>

\* Lines 90-91: the first candidate that is not negative ends the loop.
WalkBreak ==
    /\ method = "largest_shock" /\ pc = "walk" /\ walk <= Len(sorted_shocks)
    /\ NotNegative(ShockValue)
    /\ pc' = "record"
    /\ UNCHANGED <<walk, largest_valid_shock, year_of_shock>>
    /\ WalkFrame

\* Lines 97-98: the first year has no previous year.
WalkFirstYear ==
    /\ method = "largest_shock" /\ pc = "walk" /\ walk <= Len(sorted_shocks)
    /\ ~NotNegative(ShockValue)
    /\ YearIdx = 0
    /\ walk' = walk + 1
    /\ UNCHANGED <<pc, largest_valid_shock, year_of_shock>>
    /\ WalkFrame

\* Lines 101-105: the calories did not decrease, the loop goes on.
WalkNoDecrease ==
    /\ method = "largest_shock" /\ pc = "walk" /\ walk <= Len(sorted_shocks)
    /\ ~NotNegative(ShockValue)
    /\ YearIdx # 0
    /\ ~CaloriesDecreased(calories_df[country][Year], calories_df[country][Year - 1])
    /\ walk' = walk + 1
    /\ UNCHANGED <<pc, largest_valid_shock, year_of_shock>>
    /\ WalkFrame

\* Lines 105-109: the candidate is taken.
WalkAccept ==
    /\ method = "largest_shock" /\ pc = "walk" /\ walk <= Len(sorted_shocks)
    /\ ~NotNegative(ShockValue)
    /\ YearIdx # 0
    /\ CaloriesDecreased(calories_df[country][Year], calories_df[country][Year - 1])
    /\ largest_valid_shock' = ShockValue
    /\ year_of_shock' = Num(Year, 1)
    /\ pc' = "record"
    /\ UNCHANGED walk
    /\ WalkFrame

\* Line 88: sorted_shocks is exhausted.
WalkEnd ==
    /\ method = "largest_shock" /\ pc = "walk" /\ walk > Len(sorted_shocks)
    /\ pc' = "record"
    /\ UNCHANGED <<walk, largest_valid_shock, year_of_shock>>
    /\ WalkFrame

\* The record of lines 124-130.
Record(c, shock, year) ==
    [country |-> c, largest_crop_shock |-> shock, year_of_shock |-> year]

\* Lines 120-122: the note printed for an entity that takes the fallback.
FallbackNoteMut(c) == {}

FallbackNote(c) == {<<"Note", c, 0>>}

\* Lines 113-130 when no candidate was taken: the minimum of the series.
RecordFallback ==
    /\ method = "largest_shock" /\ pc = "record"
    /\ largest_valid_shock = None
    /\ LET row == df[country]
           shock == SeriesMin(row)
           year == IF notna(row) # {} THEN Num(SeriesIdxMin(row), 1) ELSE None
       IN  /\ largest_valid_shock' = shock
           /\ year_of_shock' = year
           /\ results' = Append(results, Record(country, shock, year))
    /\ via' = Append(via, "fallback")
    /\ log' = log \cup FallbackNote(country)
    /\ country' = country + 1
    /\ pc' = "loop"
    /\ UNCHANGED <<method, args, changesVars, df, calories_df, sorted_shocks, walk, csv,
                   moreVars>>

\* Lines 113 and 124-130 when the validation loop took a candidate.
RecordValid ==
    /\ method = "largest_shock" /\ pc = "record"
    /\ largest_valid_shock # None
    /\ results' = Append(results, Record(country, largest_valid_shock, year_of_shock))
    /\ via' = Append(via, "walk")
    /\ country' = country + 1
    /\ pc' = "loop"
    /\ UNCHANGED <<method, args, log, changesVars, df, calories_df, sorted_shocks, walk,
                   largest_valid_shock, year_of_shock, csv, moreVars>>

\* DataFrame.to_csv: None and NaN are both written as an empty field.
ToCsv(cell) == IF cell = None THEN NaN ELSE cell

\* Lines 133-137.
ShockSave ==
    /\ method = "largest_shock" /\ pc = "loop" /\ country > Len(df)
    /\ results # <<>>
    /\ csv' = [i \in 1..Len(results) |->
                 Record(results[i].country, ToCsv(results[i].largest_crop_shock),
                        ToCsv(results[i].year_of_shock))]
    /\ pc' = "saved"
    /\ UNCHANGED <<method, args, country, log, changesVars, df, calories_df,
                   sorted_shocks, walk, largest_valid_shock, year_of_shock, results, via,
                   moreVars>>

\* Line 133 when no record was appended: pd.DataFrame([]) has no column
\* "country" and set_index raises KeyError.
ShockSaveError ==
    /\ method = "largest_shock" /\ pc = "loop" /\ country > Len(df)
    /\ results = <<>>
    /\ pc' = "raised"
    /\ UNCHANGED <<method, args, country, log, changesVars, shockVars, moreVars>>

NextShock ==
    \/ ShockNotInCalories
    \/ ShockSort
    \/ WalkBreak
    \/ WalkFirstYear
    \/ WalkNoDecrease
    \/ WalkAccept
    \/ WalkEnd
    \/ RecordFallback
    \/ RecordValid
    \/ ShockSave
    \/ ShockSaveError

SpecShock == InitShock /\ [][NextShock]_vars

(***************************************************************************)
(* Properties of calculate_largest_shock.                                  *)
(***************************************************************************)

IsNegative(v) == IsNum(v) /\ v[2] < 0

\* The years of entity c that have a negative deviation, a preceding year
\* and calories strictly below those of the preceding year.
Corroborated(c) ==
    { y \in SYears :
        /\ y > 1
        /\ IsNegative(df[c][y])
        /\ Lt(calories_df[c][y], calories_df[c][y - 1]) }

\* C6: the year the validation walk accepts is never the first year, never a
\* year whose deviation is not negative, and never a year whose calories are
\* not strictly below those of the year before.
ClaimC6 ==
    (method = "largest_shock" /\ pc = "record" /\ largest_valid_shock # None) =>
        \E y \in Corroborated(country) : year_of_shock = Num(y, 1)

\* C7: an entity with at least one corroborated year gets the most negative
\* deviation among its corroborated years, with a year that holds it, and
\* gets it from the walk, not from the fallback.
TheoremC7 ==
    \A i \in 1..Len(results) :
        LET c == results[i].country
        IN  Corroborated(c) # {} =>
                /\ via[i] = "walk"
                /\ \E y \in Corroborated(c) :
                     /\ results[i].year_of_shock = Num(y, 1)
                     /\ results[i].largest_crop_shock = df[c][y]
                     /\ \A z \in Corroborated(c) : ~Lt(df[c][z], df[c][y])

\* A record was taken from a corroborated year although another year of the
\* entity has a more negative deviation.
WitnessC7 ==
    \E i \in 1..Len(results) :
        LET c == results[i].country
        IN  /\ Corroborated(c) # {}
            /\ \E z \in SYears : Lt(df[c][z], results[i].largest_crop_shock)

\* The minimum of a row of deviations and the years that hold it.
MinimumOf(row) ==
    IF \A y \in DOMAIN row : row[y] = NaN THEN NaN
    ELSE row[CHOOSE y \in DOMAIN row :
                row[y] # NaN /\ \A z \in DOMAIN row : ~Lt(row[z], row[y])]

\* C8: an entity without a corroborated year still gets a record, which
\* holds the minimum of its whole deviation series and the year of that
\* minimum (no year when the series has no minimum).
ClaimC8 ==
    \A i \in 1..Len(results) :
        LET c == results[i].country
            m == MinimumOf(df[c])
        IN  Corroborated(c) = {} =>
                /\ results[i].largest_crop_shock = m
                /\ IF m = NaN THEN results[i].year_of_shock = None
                   ELSE \E y \in SYears :
                          results[i].year_of_shock = Num(y, 1) /\ df[c][y] = m

\* C9 as stated: in the written table a record that comes from the fallback
\* can be told apart from a record that comes from the walk.
ClaimC9 ==
    \A i, j \in 1..Len(csv) :
        via[i] # via[j] =>
            <<csv[i].largest_crop_shock, csv[i].year_of_shock>> #
                <<csv[j].largest_crop_shock, csv[j].year_of_shock>>

\* C9 amended: the entities whose record comes from the fallback are exactly
\* those for which the note "has no shocks with actual calorie decrease" is
\* printed; the rows of the written table hold the country, the shock and
\* the year, and nothing else.
AmendedC9 ==
    /\ \A i \in 1..Len(results) :
         (via[i] = "fallback") <=> (<<"Note", results[i].country, 0>> \in log)
    /\ \A i \in 1..Len(csv) :
         DOMAIN csv[i] = {"country", "largest_crop_shock", "year_of_shock"}

\* The written table holds a record from the fallback and one from the walk.
WitnessC9 ==
    /\ pc = "saved"
    /\ \E i, j \in 1..Len(csv) : via[i] = "fallback" /\ via[j] = "walk"

\* C10 as stated: every shock magnitude is strictly negative or null.
ClaimC10 ==
    \A i \in 1..Len(results) :
        results[i].largest_crop_shock = NaN \/ IsNegative(results[i].largest_crop_shock)

\* C10 amended: a shock magnitude is strictly negative or null, except for
\* an entity none of whose deviations is negative: the fallback gives it the
\* minimum of its deviations, which is then zero or positive.
AmendedC10 ==
    \A i \in 1..Len(results) :
        LET c == results[i].country
            shock == results[i].largest_crop_shock
        IN  \/ shock = NaN
            \/ IsNegative(shock)
            \/ /\ via[i] = "fallback"
               /\ \A y \in SYears : ~IsNegative(df[c][y])
               /\ shock = MinimumOf(df[c])

\* A record holds a magnitude that is not negative.
WitnessC10 ==
    \E i \in 1..Len(results) :
        /\ IsNum(results[i].largest_crop_shock)
        /\ ~IsNegative(results[i].largest_crop_shock)

\* C11: every entity of the table of calories whose deviations are all
\* missing gets a record with no magnitude and no year, whatever its calories
\* are, and the loop goes on to the entities after it.
ClaimC11 ==
    (method = "largest_shock" /\ pc = "loop") =>
        \A c \in 1..(country - 1) :
            (c \in DOMAIN calories_df /\ AllNaN(df[c])) =>
                \E i \in 1..Len(results) :
                    /\ results[i].country = c
                    /\ results[i].largest_crop_shock = NaN
                    /\ results[i].year_of_shock = None

(***************************************************************************)
(* run_everything.py after calculate_largest_shock.py: the plotting        *)
(* scripts. plot_maps.py reads the same table of yield changes; an entity  *)
(* is identified by its row in that table.                                 *)
(***************************************************************************)

\* plot_maps.py lines 360-373: the minimum of the row and the year that
\* holds it, None when the whole row is missing.
PlotMapsRow(c) ==
    Record(c, SeriesMin(df[c]),
           IF notna(df[c]) = {} THEN None ELSE Num(SeriesIdxMin(df[c]), 1))

\* run_everything.py lines 37-41 when calculate_largest_shock.py ends with
\* an exception: the run stops.
PipelineShockFailed ==
    /\ method = "largest_shock" /\ pc = "raised"
    /\ pc' = "exited"
    /\ UNCHANGED <<method, args, country, log, changesVars, shockVars, moreVars>>

\* plot_maps.py runs to its end: lines 358-377 write the file again, one row
\* for every row of the table of yield changes.
PlotMaps ==
    /\ method = "largest_shock" /\ pc = "saved"
    /\ csv' = [c \in 1..Len(df) |->
                 Record(c, ToCsv(PlotMapsRow(c).largest_crop_shock),
                        ToCsv(PlotMapsRow(c).year_of_shock))]
    /\ pc' = "plot_maps"
    /\ UNCHANGED <<method, args, country, log, changesVars, df, calories_df,
                   sorted_shocks, walk, largest_valid_shock, year_of_shock, results, via,
                   moreVars>>

\* plot_maps.py fails before line 358 (the style sheet, the border or the
\* shapefile cannot be loaded, or the table of reasons is not there): the
\* run stops.
PlotMapsFailed ==
    /\ method = "largest_shock" /\ pc = "saved"
    /\ pc' = "exited"
    /\ UNCHANGED <<method, args, country, log, changesVars, shockVars, moreVars>>

\* The three plotting scripts after plot_maps.py: none of them writes the
\* file; the run ends when one fails or when all are done.
PlotOthers ==
    /\ method = "largest_shock" /\ pc = "plot_maps"
    /\ pc' \in {"finished", "exited"}
    /\ UNCHANGED <<method, args, country, log, changesVars, shockVars, moreVars>>

NextPipeline ==
    \/ NextShock
    \/ PipelineShockFailed
    \/ PlotMaps
    \/ PlotMapsFailed
    \/ PlotOthers

SpecPipeline == InitShock /\ [][NextPipeline]_vars

\* The table calculate_largest_shock wrote from its records.
ValidatedCsv ==
    [i \in 1..Len(results) |->
        [country |-> results[i].country,
         largest_crop_shock |-> IF results[i].largest_crop_shock = None THEN NaN
                                ELSE results[i].largest_crop_shock,
         year_of_shock |-> IF results[i].year_of_shock = None THEN NaN
                           ELSE results[i].year_of_shock]]

\* C12: once calculate_largest_shock.py has written the file, it holds the
\* validated records until the end of the run: no later stage writes it.
ClaimC12 ==
    (method = "largest_shock" /\ pc \in {"saved", "plot_maps", "finished", "exited"}
        /\ csv # <<>>) => csv = ValidatedCsv

(***************************************************************************)
(* Properties of the sequence given to the filter and of the row written.  *)
(***************************************************************************)

\* The value at year y on the straight line through the nearest known years
\* before and after y, for a missing year y between two known years of row.
Interpolated(row, y) ==
    LET a == CHOOSE z \in notna(row) : z < y /\ \A u \in notna(row) : u < y => u <= z
        b == CHOOSE z \in notna(row) : z > y /\ \A u \in notna(row) : u > y => u >= z
    IN  Num(row[a][2] * (b - a) + (row[b][2] - row[a][2]) * (y - a), b - a)

\* x holds the values of consecutive years of row from year first on, a
\* missing year between two known years holding the interpolated value.
ConsecutiveFrom(row, x, first) ==
    /\ first + Len(x) - 1 \in DOMAIN row
    /\ \A k \in 1..Len(x) :
         LET y == first + k - 1
         IN  IF row[y] # NaN THEN x[k] = row[y]
             ELSE /\ \E a, b \in notna(row) : a < y /\ y < b
                  /\ x[k] = Interpolated(row, y)

\* C13: the sequence given to the filter holds the values of consecutive
\* years, the missing years between two known years being interpolated or
\* the sequence being a run without missing year: values of years that are
\* not adjacent are never next to each other.
ClaimC13 ==
    \A i \in 1..Len(calls) :
        LET row == data[calls[i].country]
        IN  \E first \in DOMAIN row : ConsecutiveFrom(row, calls[i].x, first)

\* The baseline the filter call returned.
Smoothed(call) ==
    IF method = "savgol"
    THEN savgol_filter(call.x, call.window_length, call.polyorder)
    ELSE gaussian_filter1d(call.x, call.sigma)

\* 100 * (v - s) / s for an integer value v and a baseline s.
Deviation(v, s) == Num(100 * (v[2] * s[3] - s[2]), s[2])

\* C14: a year without input value has no deviation, and the deviation of
\* the k-th valid value of an entity is stored under the year of that value.
TheoremC14 ==
    \A c \in Processed :
        /\ \A y \in DOMAIN data[c] : data[c][y] = NaN => pct_changes[c][y] = NaN
        /\ \A i \in CallsOf(c) :
             ~calls[i].raised =>
                LET smoothed == Smoothed(calls[i])
                IN  \A y \in notna(data[c]) :
                        LET k == Cardinality({z \in notna(data[c]) : z <= y})
                        IN  /\ calls[i].x[k] = data[c][y]
                            /\ pct_changes[c][y] = Deviation(data[c][y], smoothed[k])

\* A table was returned in which an entity has a missing year before a year
\* that holds a deviation other than 0.
WitnessC14 ==
    /\ pc = "returned"
    /\ \E c \in 1..Len(data) :
         \E y, z \in DOMAIN data[c] :
            /\ y < z /\ data[c][y] = NaN
            /\ IsNum(pct_changes[c][z]) /\ pct_changes[c][z][2] # 0

\* C15: a year whose baseline is 0 gets a missing deviation, and the call
\* that computed it did not raise.
ClaimC15 ==
    \A c \in Processed :
        \A i \in CallsOf(c) :
            ~calls[i].raised =>
                LET smoothed == Smoothed(calls[i])
                    lab == ValidLabels(data[c])
                IN  \A k \in 1..Len(lab) :
                        smoothed[k] = Num(0, 1) => pct_changes[c][lab[k]] = NaN

\* C16: the table returned has the rows of the input table and every row
\* has the year columns of the input table, the rows of skipped entities
\* included.
TheoremC16 ==
    pc = "returned" =>
        /\ DOMAIN pct_changes = DOMAIN data
        /\ \A c \in DOMAIN data : DOMAIN pct_changes[c] = DOMAIN data[c]

\* A table was returned in which one entity was skipped and another was not.
WitnessC16 ==
    /\ pc = "returned"
    /\ \E c, d \in DOMAIN data :
         /\ NValid(data[c]) <= 2 /\ CallsOf(c) = {}
         /\ CallsOf(d) # {} /\ ~AllNaN(pct_changes[d])

\* s (in tenths) is the sigma the configured sigma (in tenths) gives for
\* n valid points: max(0.5, sigma * n / 10) below 10 points, sigma from 10 on.
IsSigmaFor(s, sigma, n) ==
    \/ n >= 10 /\ s = sigma
    \/ n < 10 /\ sigma * n <= 50 /\ s = 5
    \/ n < 10 /\ sigma * n > 50 /\ 10 * s = sigma * n

\* C17: every call of gaussian_filter1d is made for 3 valid points or more
\* with the sigma that the configured sigma gives for that number of points,
\* whatever sigma was used for the entities before.
TheoremC17 ==
    method = "gaussian" =>
        \A i \in 1..Len(calls) :
            /\ Len(calls[i].x) >= 3
            /\ IsSigmaFor(calls[i].sigma, args.sigma, Len(calls[i].x))

\* An entity with fewer than 10 valid points was filtered with a sigma
\* below the configured one, and a later entity with 10 valid points or more
\* with the configured sigma.
WitnessC17 ==
    /\ method = "gaussian"
    /\ \E i, j \in 1..Len(calls) :
         /\ i < j
         /\ Len(calls[i].x) < 10 /\ calls[i].sigma < args.sigma
         /\ Len(calls[j].x) >= 10 /\ calls[j].sigma = args.sigma

IsConstant(row) ==
    \A y \in DOMAIN row : IsNum(row[y]) /\ row[y][2] # 0 /\ row[y] = row[1]

\* C19: for an entity that holds the same non-zero value in every year the
\* baseline the filter returns is the input, and every deviation written is 0.
TheoremC19 ==
    \A c \in Processed :
        \A i \in CallsOf(c) :
            (IsConstant(data[c]) /\ ~calls[i].raised) =>
                /\ Smoothed(calls[i]) = [y \in DOMAIN data[c] |-> data[c][y]]
                /\ \A y \in DOMAIN data[c] : pct_changes[c][y] = Num(0, 1)

\* A table was returned in which a constant entity and an entity that is
\* not constant were filtered.
WitnessC19 ==
    /\ pc = "returned"
    /\ \E c \in DOMAIN data : IsConstant(data[c]) /\ CallsOf(c) # {}
    /\ \E d \in DOMAIN data : ~IsConstant(data[d]) /\ CallsOf(d) # {}

(***************************************************************************)
(* calculate_changes_savgol as main calls it (window_length=15,            *)
(* polyorder=3) on series that are constant but for one drop of 30%. Every *)
(* entity holds DropYears values, so no entity is skipped and no window is *)
(* shrunk: the loop takes lines 45-52 for every entity.                    *)
(***************************************************************************)

\* Number of year columns of the tables of series with a drop.
DropYears == 31

\* The series 10 * b with the value 7 * b in year d.
DropRow(b, d) == [y \in 1..DropYears |-> Num(IF y = d THEN 7 * b ELSE 10 * b, 1)]

\* The interior years: all but the first and the last.
InteriorYears == 2..(DropYears - 1)

\* One row has its drop at any interior year, every other row in the middle.
DropTables ==
    { [c \in 1..NEntities |->
          IF c = k THEN DropRow(b, d) ELSE DropRow(1, (DropYears + 1) \div 2)] :
        k \in 1..NEntities, b \in {1, 2}, d \in InteriorYears }

InitDrop ==
    /\ method = "savgol"
    /\ args = [window_length |-> 15, polyorder |-> 3, sigma |-> 0]
    /\ data \in DropTables
    /\ pc = "entry"
    /\ country = 1
    /\ window_length = args.window_length
    /\ pct_changes = <<>>
    /\ calls = <<>>
    /\ log = {}
    /\ ShockIdle
    /\ MoreIdle

NextDrop ==
    \/ SavgolBegin
    \/ SavgolSmooth
    \/ SavgolReturn

SpecDrop == InitDrop /\ [][NextDrop]_vars

\* The year of the drop of a row of DropTables.
DropYearOf(row) == CHOOSE d \in InteriorYears : \A y \in DOMAIN row : Lt(row[d], row[y]) \/ y = d

\* -b <= deviation <= b, in percent.
Within(dev, b) == IsNum(dev) /\ dev[3] > 0 /\ -b * dev[3] <= dev[2] /\ dev[2] <= b * dev[3]

scripts ==
    << "get_FAO_data.py", "calculate_yearly_calories.py", "calculate_food_shocks.py",
       "calculate_largest_shock.py", "plot_maps.py",
       "plot_country_world_correlations.py",
       "plot_countries_by_countries_per_decade.py", "plot_compare_shock_reasons.py" >>

\* The ways requests.get and the lines after it fail inside the try block of
\* download_fao_crop_production_bulk: a status code other than 200, or an
\* exception (no connection, a file that is not a zip archive).
DownloadFailures == {404, 500, 0}

\* run_everything.py line 39: result.returncode != 0.
ShouldExitMut(returncode) == returncode > 1

ShouldExit(returncode) == returncode # 0

\* The return code of a script whose main returned (0, whatever main
\* returned) or which ended with an uncaught exception (1).
ExitStatusMut(raised) == 1

ExitStatus(raised) == IF raised THEN 1 ELSE 0

InitRun ==
    /\ method = "run_everything"
    /\ args = <<>>
    /\ pc = "start"
    /\ script = 1
    /\ runs = <<>>
    /\ returncodes = <<>>
    /\ exit_code = <<>>
    /\ files = {}
    /\ log = {}
    /\ country = 0
    /\ data = <<>>
    /\ window_length = 0
    /\ pct_changes = <<>>
    /\ calls = <<>>
    /\ df_agg = <<>>
    /\ filtered_df = <<>>
    /\ ShockIdle

RunFrame == UNCHANGED <<method, args, country, changesVars, shockVars, df_agg, filtered_df>>

\* Lines 36-38: the next script is started.
RunScript ==
    /\ method = "run_everything" /\ pc = "start" /\ script <= Len(scripts)
    /\ runs' = Append(runs, scripts[script])
    /\ log' = log \cup {<<"Running", script, 0>>}
    /\ pc' = "running"
    /\ UNCHANGED <<script, returncodes, exit_code, files>>
    /\ RunFrame

\* Lines 38-42: subprocess.run returns with the return code of the script;
\* the run exits with it when it is not 0, and goes on to the next script
\* otherwise. printed is what the script printed.
Returned(returncode, printed) ==
    /\ returncodes' = Append(returncodes, returncode)
    /\ IF ShouldExit(returncode)
       THEN /\ log' = log \cup printed \cup {<<"Error running", script, 0>>}
            /\ exit_code' = <<returncode>>
            /\ pc' = "exited"
            /\ UNCHANGED script
       ELSE /\ log' = log \cup printed \cup {<<"Finished", script, 0>>}
            /\ script' = script + 1
            /\ pc' = IF script = Len(scripts) THEN "finished" ELSE "start"
            /\ UNCHANGED exit_code
    /\ UNCHANGED runs
    /\ RunFrame

Running(name) ==
    method = "run_everything" /\ pc = "running" /\ scripts[script] = name

\* get_FAO_data.py lines 27-36 and 60-62, 292-296: the download fails, the
\* exception is caught and printed, main returns None.
FaoDownloadFailed ==
    /\ Running("get_FAO_data.py")
    /\ \E failure \in DownloadFailures :
         Returned(ExitStatus(FALSE),
                  {<<"Error downloading bulk data", failure, 0>>,
                   <<"Bulk download failed or returned empty data.", 0, 0>>})
    /\ UNCHANGED files

\* get_FAO_data.py lines 294-296 and 305: the table downloaded has no row,
\* or no row is left after filtering and cleaning; no file is written.
FaoNothingToSave ==
    /\ Running("get_FAO_data.py")
    /\ Returned(ExitStatus(FALSE), {})
    /\ UNCHANGED files

\* get_FAO_data.py lines 298-324: both files are written.
FaoSaved ==
    /\ Running("get_FAO_data.py")
    /\ files' = {"fao_crop_production_comprehensive.csv",
                 "fao_crop_production_wide_format.csv"}
    /\ Returned(ExitStatus(FALSE), {})

\* get_FAO_data.py lines 298-324 when filtering, cleaning, reshaping or
\* saving raises: nothing catches the exception.
FaoRaised ==
    /\ Running("get_FAO_data.py")
    /\ files' \in {{}, {"fao_crop_production_comprehensive.csv"}}
    /\ Returned(ExitStatus(TRUE), {})

\* Any other script ends with some return code.
ScriptReturned ==
    /\ method = "run_everything" /\ pc = "running"
    /\ scripts[script] # "get_FAO_data.py"
    /\ \E returncode \in 0..2 : Returned(returncode, {})
    /\ UNCHANGED files

NextRun ==
    \/ RunScript
    \/ FaoDownloadFailed
    \/ FaoNothingToSave
    \/ FaoSaved
    \/ FaoRaised
    \/ ScriptReturned

SpecRun == InitRun /\ [][NextRun]_vars

\* The scripts in the order the module docstring lists them.
ListedOrder ==
    << "get_FAO_data.py", "calculate_yearly_calories.py", "calculate_food_shocks.py",
       "calculate_largest_shock.py", "plot_maps.py",
       "plot_country_world_correlations.py",
       "plot_countries_by_countries_per_decade.py", "plot_compare_shock_reasons.py" >>

\* C21: the scripts started are the first scripts of the listed order, at
\* most one has not ended, every script before a started script has ended
\* with return code 0, and a return code other than 0 is that of the last
\* script started: the run has exited with it.
TheoremC21 ==
    method = "run_everything" =>
        /\ Len(runs) <= Len(ListedOrder)
        /\ \A i \in 1..Len(runs) : runs[i] = ListedOrder[i]
        /\ Len(returncodes) \in {Len(runs) - 1, Len(runs)} \cap 0..Len(runs)
        /\ \A i \in 1..Len(runs) : \A j \in 1..(i - 1) : returncodes[j] = 0
        /\ \A i \in 1..Len(returncodes) :
             returncodes[i] # 0 =>
                /\ i = Len(runs)
                /\ pc = "exited"
                /\ exit_code = <<returncodes[i]>>
        /\ pc = "exited" => returncodes # <<>> /\ returncodes[Len(returncodes)] # 0
        /\ pc = "finished" => runs = ListedOrder

\* The run exited with return code 2 at the sixth script.
WitnessC21 ==
    /\ method = "run_everything" /\ pc = "exited"
    /\ Len(runs) = 6 /\ exit_code = <<2>>

\* The download of get_FAO_data.py has failed.
DownloadHasFailed ==
    \E failure \in DownloadFailures : <<"Error downloading bulk data", failure, 0>> \in log

\* C30: when the download fails the error is printed, no file is written,
\* get_FAO_data.py ends with return code 0 and the run does not exit: its
\* next step is to start calculate_yearly_calories.py.
TheoremC30 ==
    (method = "run_everything" /\ DownloadHasFailed) =>
        /\ files = {}
        /\ returncodes[1] = 0
        /\ Len(runs) = 1 => pc = "start" /\ script = 2
        /\ pc = "exited" => Len(runs) >= 2
        /\ (pc = "start" /\ script = 2) => ENABLED RunScript

\* After a failed download calculate_yearly_calories.py and the stages
\* after it were started.
WitnessC30 ==
    /\ method = "run_everything" /\ DownloadHasFailed
    /\ Len(runs) >= 4 /\ runs[2] = "calculate_yearly_calories.py"

\* C29: with an odd configured window_length of 3 or more, every window
\* given to savgol_filter is odd, at least 3 and at most the number of
\* valid points of the entity, wherever the entity is in the table.
TheoremC29 ==
    (method = "savgol" /\ args.window_length >= 3 /\ args.window_length % 2 = 1) =>
        \A i \in 1..Len(calls) :
            /\ calls[i].window_length % 2 = 1
            /\ calls[i].window_length >= 3
            /\ calls[i].window_length <= Len(calls[i].x)

\* An entity was given to the filter with a window below the configured
\* one although it has as many valid points as the configured window.
WitnessC29 ==
    /\ method = "savgol"
    /\ \E i, j \in 1..Len(calls) :
         /\ i < j
         /\ Len(calls[i].x) < args.window_length
         /\ Len(calls[j].x) >= args.window_length
         /\ calls[j].window_length < args.window_length

\* ---------------------------------------------------------------------------
\* calculate_historical_frequency.py: analyze_historical_frequency.
\* ---------------------------------------------------------------------------

\* Line 20: the threshold used when the caller gives none, 5.0 percent.
THRESHOLD == 5

\* Lines 69-70: thresholds=None stands for [THRESHOLD].
Thresholds(thresholds) == IF thresholds = None THEN <<THRESHOLD>> ELSE thresholds

\* data < -threshold for one cell: a comparison with NaN is False.
BelowMut(v, threshold) == ~Lt(Num(0 - threshold, 1), v)

Below(v, threshold) == Lt(v, Num(0 - threshold, 1))

\* Line 85: (data < -threshold).sum(axis=0), the count of each year column.
events_below(frame, threshold) ==
    [y \in DOMAIN frame[1] |->
        Cardinality({e \in DOMAIN frame : Below(frame[e][y], threshold)})]

\* Lines 86-88: (events_below > 0).sum()
years_with_events(counts) == Cardinality({y \in DOMAIN counts : counts[y] > 0})

\* Line 89: events_below.sum()
RECURSIVE total_events(_)
total_events(counts) ==
    IF counts = <<>> THEN 0
    ELSE counts[Len(counts)] + total_events(SubSeq(counts, 1, Len(counts) - 1))

\* Lines 93-98.
HistoricalFrequencyMut(total_years, n) == Num(total_years, n + 1)

HistoricalFrequency(total_years, n) ==
    IF n > 0 THEN Num(total_years, n) ELSE Num(1, 0)

EventFrequency(total_years, n) == IF n > 0 THEN Num(n, total_years) ELSE Num(0, 1)

\* Lines 100-108: the entry of one threshold. Line 100 divides two numpy
\* integers: 0/0 is nan (with a warning), nothing is raised.
FrequencyEntry(n_years_with_events, n_total_events, total_years) ==
    [years_with_events    |-> n_years_with_events,
     total_events         |-> n_total_events,
     historical_frequency |-> HistoricalFrequency(total_years, n_years_with_events),
     event_frequency      |-> EventFrequency(total_years, n_years_with_events),
     avg_events_per_year  |-> Num(n_total_events, n_years_with_events)]

\* Lines 77-82: global_analysis, data is a series.
SeriesEntry(series, threshold) ==
    LET count == Cardinality({y \in DOMAIN series : Below(series[y], threshold)})
    IN  FrequencyEntry(count, count, Len(series))

\* Lines 83-90: data is a table of entities x years.
FrameEntry(frame, threshold) ==
    LET counts == events_below(frame, threshold)
    IN  FrequencyEntry(years_with_events(counts), total_events(counts), Len(frame[1]))

\* The yield changes given to the analysis, in percent.
FreqValue == {NaN, Num(-11, 1), Num(-6, 1), Num(-5, 1)}

\* Reference rows: the first s years hold a change of -6 percent, the other
\* years -5 percent, which is not below -5.
FreqRefRow(n, s) == [y \in 1..n |-> IF y <= s THEN Num(-6, 1) ELSE Num(-5, 1)]

\* A table of k rows and n years: row i is the row r, the others are
\* reference rows.
FreqTable(k, n, i, r, ss) ==
    [e \in 1..k |-> IF e = i THEN r ELSE FreqRefRow(n, ss[e])]

InitFrequency ==
    /\ method = "historical_frequency"
    /\ \E thresholds \in {None, <<10>>, <<5, 10>>}, global_analysis \in BOOLEAN :
         args = [thresholds |-> thresholds, global_analysis |-> global_analysis]
    /\ \E n \in {2, NYears}, k \in 1..NEntities :
         \E r \in [1..n -> FreqValue], i \in 1..k, ss \in [1..k -> {0, 1}] :
             data = IF args.global_analysis THEN r ELSE FreqTable(k, n, i, r, ss)
    /\ pc = "entry"
    /\ country = 0
    /\ log = {}
    /\ window_length = 0
    /\ pct_changes = <<>>
    /\ calls = <<>>
    /\ ShockIdle
    /\ MoreIdle

\* Lines 76-82 and 93-118 for every threshold, global_analysis=True.
AnalyzeSeries ==
    /\ method = "historical_frequency" /\ pc = "entry"
    /\ args.global_analysis
    /\ LET thresholds == Thresholds(args.thresholds)
       IN  results' = [t \in {thresholds[i] : i \in DOMAIN thresholds} |->
                          SeriesEntry(data, t)]
    /\ pc' = "returned"
    /\ UNCHANGED <<method, args, data, country, log, window_length, pct_changes, calls,
                   df, calories_df, sorted_shocks, walk, largest_valid_shock,
                   year_of_shock, via, csv, moreVars>>

\* Lines 76, 83-90 and 93-118 for every threshold, global_analysis=False.
AnalyzeFrame ==
    /\ method = "historical_frequency" /\ pc = "entry"
    /\ ~args.global_analysis
    /\ LET thresholds == Thresholds(args.thresholds)
       IN  results' = [t \in {thresholds[i] : i \in DOMAIN thresholds} |->
                          FrameEntry(data, t)]
    /\ pc' = "returned"
    /\ UNCHANGED <<method, args, data, country, log, window_length, pct_changes, calls,
                   df, calories_df, sorted_shocks, walk, largest_valid_shock,
                   year_of_shock, via, csv, moreVars>>

NextFrequency == AnalyzeSeries \/ AnalyzeFrame

SpecFrequency == InitFrequency /\ [][NextFrequency]_vars

\* A change strictly below -t percent.
StrictlyBelow(v, t) == v[1] = 2 /\ v[3] = 1 /\ v[2] < 0 - t

\* The cells of the input of the analysis: (entity, year) pairs; a series is
\* the single entity 1.
FreqCells ==
    IF args.global_analysis
    THEN {<<1, y>> : y \in DOMAIN data}
    ELSE {<<e, y>> : e \in DOMAIN data, y \in 1..Len(data[1])}

FreqCell(c) == IF args.global_analysis THEN data[c[2]] ELSE data[c[1]][c[2]]

EventCells(t) == {c \in FreqCells : StrictlyBelow(FreqCell(c), t)}

EventYears(t) == {c[2] : c \in EventCells(t)}

AllYears == {c[2] : c \in FreqCells}

\* C23: when no value of the input is below -threshold, the call returns a
\* result with years_with_events = 0, total_events = 0, historical_frequency
\* infinite and event_frequency = 0.
TheoremC23 ==
    (method = "historical_frequency" /\ pc = "returned") =>
        \A t \in DOMAIN results :
            EventCells(t) = {} =>
                /\ results[t].years_with_events = 0
                /\ results[t].total_events = 0
                /\ results[t].historical_frequency = <<2, 1, 0>>
                /\ results[t].event_frequency = <<2, 0, 1>>

WitnessC23 ==
    /\ method = "historical_frequency" /\ pc = "returned" /\ ~args.global_analysis
    /\ Len(data) = 2
    /\ \E t \in DOMAIN results :
         /\ EventCells(t) = {}
         /\ \E c \in FreqCells : FreqCell(c) = <<2, 0 - t, 1>>
         /\ \E c \in FreqCells : FreqCell(c) = NaN
         /\ results[t].avg_events_per_year = NaN

\* C24: for a table, years_with_events is the number of years with at least
\* one value strictly below -t and total_events the number of cells strictly
\* below -t; for a series both are the number of years strictly below -t;
\* historical_frequency is total_years / years_with_events and
\* event_frequency is years_with_events / total_years.
TheoremC24 ==
    (method = "historical_frequency" /\ pc = "returned") =>
        \A t \in DOMAIN results :
            LET nyears == Cardinality(EventYears(t))
                ncells == Cardinality(EventCells(t))
                total  == Cardinality(AllYears)
            IN  /\ results[t].years_with_events = nyears
                /\ results[t].total_events = ncells
                /\ args.global_analysis => results[t].total_events = nyears
                /\ results[t].historical_frequency = Num(total, nyears)
                /\ results[t].event_frequency = Num(nyears, total)

WitnessC24 ==
    /\ method = "historical_frequency" /\ pc = "returned" /\ ~args.global_analysis
    /\ Len(data) = 2
    /\ DOMAIN results = {5, 10}
    /\ results[5].years_with_events = 2
    /\ results[5].total_events = 3
    /\ results[5].historical_frequency = <<2, 5, 2>>
    /\ results[10].years_with_events = 1
    /\ \E c \in FreqCells : FreqCell(c) = NaN

\* ---------------------------------------------------------------------------
\* get_FAO_data.py: filter_crops_of_interest.
\* A table is a record of its column names and its rows; a string of the
\* Item column is the sequence of its character codes (65 'A', 97 'a',
\* 98 'b'), so that lower() and the substring test are computed.
\* ---------------------------------------------------------------------------

\* str.lower() on the character codes of a string.
lower(s) == [i \in 1..Len(s) |-> IF s[i] >= 65 /\ s[i] <= 90 THEN s[i] + 32 ELSE s[i]]

\* needle in hay (Python's substring test).
In(needle, hay) ==
    \E i \in 0..(Len(hay) - Len(needle)) : SubSeq(hay, i + 1, i + Len(needle)) = needle

\* Lines 76-77: the crop names of every category, in the order of the dict.
RECURSIVE flat_crop_list(_)
flat_crop_list(crop_list) ==
    IF crop_list = <<>> THEN <<>>
    ELSE crop_list[1].crops \o flat_crop_list(Tail(crop_list))

\* The position of a column, 0 when the table has no such column.
ColumnOf(table, name) ==
    IF \E i \in DOMAIN table.columns : table.columns[i] = name
    THEN CHOOSE i \in DOMAIN table.columns : table.columns[i] = name
    ELSE 0

\* Line 84: the lambda applied to one item.
IsCropOfInterest(x, flat) == \E i \in DOMAIN flat : In(lower(flat[i]), lower(x))

\* Lines 88-95 for one kept item: the loops assign in the order of the dict,
\* so the last crop name contained in the item decides; str.contains with
\* case=False (the names hold letters only, so the pattern is literal).
LastMatch(x, flat) ==
    LET hits == {i \in DOMAIN flat : In(lower(flat[i]), lower(x))}
    IN  IF hits = {} THEN 0 ELSE CHOOSE i \in hits : \A j \in hits : j <= i

RECURSIVE CategoryOf(_, _)
CategoryOf(crop_list, i) ==
    IF i <= Len(crop_list[1].crops) THEN crop_list[1].category
    ELSE CategoryOf(Tail(crop_list), i - Len(crop_list[1].crops))

\* Lines 80-98: the table returned for a table that has the column 'Item'.
FilteredFrame(table, crop_list) ==
    LET flat == flat_crop_list(crop_list)
        item == ColumnOf(table, "Item")
        kept == SelectSeq(table.rows, LAMBDA row : IsCropOfInterest(row[item], flat))
        Extended(row) ==
            LET m == LastMatch(row[item], flat)
            IN  row \o <<IF m = 0 THEN "Other" ELSE CategoryOf(crop_list, m)>>
                    \o (IF flat = <<>> THEN <<>> ELSE <<IF m = 0 THEN NaN ELSE flat[m]>>)
    IN  [columns |-> table.columns \o <<"Crop Category">>
                        \o (IF flat = <<>> THEN <<>> ELSE <<"Crop Name">>),
         rows    |-> [i \in 1..Len(kept) |-> Extended(kept[i])]]

\* The item names of the input tables: "A", "a", "b" and their pairs.
ItemNames == UNION {[1..n -> {65, 97, 98}] : n \in 1..2}

\* The crop dictionaries given to the function, e.g. {"Cereals": ["ab", "b"],
\* "Roots": ["a"]}.
CropLists ==
    {<<>>,
     <<[category |-> "Cereals", crops |-> <<(<<65>>)>>]>>,
     <<[category |-> "Cereals", crops |-> <<(<<97, 98>>), (<<98>>)>>],
       [category |-> "Roots", crops |-> <<(<<97>>)>>]>>}

InitFilter ==
    /\ method = "filter_crops_of_interest"
    /\ args \in CropLists
    /\ \E name \in {"Item", "Product"}, items \in [1..NEntities -> ItemNames] :
         df = [columns |-> <<"Area", name, "Y2000">>,
               rows    |-> [i \in 1..NEntities |-> <<"USA", items[i], 100 * i>>]]
    /\ pc = "entry"
    /\ filtered_df = <<>>
    /\ log = {}
    /\ country = 0
    /\ data = <<>>
    /\ window_length = 0
    /\ pct_changes = <<>>
    /\ calls = <<>>
    /\ calories_df = <<>>
    /\ sorted_shocks = <<>>
    /\ walk = 0
    /\ largest_valid_shock = None
    /\ year_of_shock = None
    /\ results = <<>>
    /\ via = <<>>
    /\ csv = <<>>
    /\ script = 0
    /\ runs = <<>>
    /\ returncodes = <<>>
    /\ exit_code = <<>>
    /\ files = {}
    /\ df_agg = <<>>

\* Lines 76-98: the table has a column 'Item'; the filtered copy is returned.
FilterReturn ==
    /\ method = "filter_crops_of_interest" /\ pc = "entry"
    /\ ColumnOf(df, "Item") # 0
    /\ filtered_df' = FilteredFrame(df, args)
    /\ log' = log \cup {<<"Filtered to", Len(filtered_df'.rows), 0>>}
    /\ pc' = "returned"
    /\ UNCHANGED <<method, args, country, changesVars, shockVars, script, runs,
                   returncodes, exit_code, files, df_agg>>

\* Line 84: filtered_df['Item'] on a table without that column raises
\* KeyError; nothing in the function catches it.
FilterKeyError ==
    /\ method = "filter_crops_of_interest" /\ pc = "entry"
    /\ ColumnOf(df, "Item") = 0
    /\ filtered_df' = [columns |-> df.columns, rows |-> df.rows]
    /\ log' = log \cup {<<"KeyError", 0, 0>>}
    /\ pc' = "raised"
    /\ UNCHANGED <<method, args, country, changesVars, shockVars, script, runs,
                   returncodes, exit_code, files, df_agg>>

NextFilter == FilterReturn \/ FilterKeyError

SpecFilter == InitFilter /\ [][NextFilter]_vars

\* C25: for a table without the column 'Item', filter_crops_of_interest
\* returns None instead of raising.
ClaimC25 ==
    (method = "filter_crops_of_interest" /\ pc # "entry"
        /\ \A i \in DOMAIN df.columns : df.columns[i] # "Item") =>
        pc = "returned" /\ filtered_df = None

\* ---------------------------------------------------------------------------
\* calculate_yearly_calories.py: calculate_calories and
\* aggregate_calories_by_country.
\* A column name is the sequence of its parts ("Y2020_calories" is
\* <<"Y", "2020", "_calories">>), so that startswith, endswith and replace
\* are computed. The input table df is a record of its column names and its
\* rows; the aggregated table df_agg holds its rows by area (the order of
\* the rows is not modelled).
\* ---------------------------------------------------------------------------

\* Lines 18-47, kcal per 100 g.
CALORIE_VALUES ==
    "Maize (corn)" :> 356 @@ "Rice" :> 360 @@ "Wheat" :> 334 @@ "Barley" :> 332 @@
    "Sorghum" :> 343 @@ "Sugar cane" :> 30 @@ "Sugar beet" :> 70 @@ "Potatoes" :> 67 @@
    "Cassava, fresh" :> 109 @@ "Sweet potatoes" :> 92 @@ "Yams" :> 101 @@ "Taro" :> 86 @@
    "Bananas" :> 60 @@ "Apples" :> 48 @@ "Oranges" :> 34 @@ "Grapes" :> 53 @@
    "Watermelons" :> 17 @@ "Tomatoes" :> 17 @@ "Onions and shallots, green" :> 31 @@
    "Cucumbers and gherkins" :> 13 @@ "Cabbages" :> 19 @@ "Eggplants (aubergines)" :> 21

\* Line 61: df["Item"].map(CALORIE_VALUES); an item that is no key gives NaN.
CalorieValue(item) ==
    IF item \in DOMAIN CALORIE_VALUES THEN Num(CALORIE_VALUES[item], 1) ELSE NaN

\* Lines 69-71 for one cell: tonnes * 1_000_000 * Calorie_Value / 100.
CaloriesOf(tonnes, calorie_value) ==
    IF IsNum(tonnes) /\ IsNum(calorie_value)
    THEN Num(tonnes[2] * 1000000 * calorie_value[2], 100 * tonnes[3] * calorie_value[3])
    ELSE NaN

\* Line 73: the columns whose name ends with '_calories'.
CalorieCols(columns) ==
    SelectSeq(columns, LAMBDA col : col[Len(col)] = "_calories")

\* Lines 60-73: the table with the column Calorie_Value and one column
\* <year>_calories per year column.
calculate_calories(table) ==
    LET item  == ColumnOf(table, <<"Item">>)
        cols  == table.columns \o <<(<<"Calorie_Value">>)>>
        ycols == SelectSeq([i \in DOMAIN cols |-> i], LAMBDA i : cols[i][1] = "Y")
        value == Len(cols)
    IN  [columns |-> cols \o [k \in DOMAIN ycols |-> cols[ycols[k]] \o <<"_calories">>],
         rows    |-> [r \in DOMAIN table.rows |->
                        LET row == table.rows[r] \o <<CalorieValue(table.rows[r][item])>>
                        IN  row \o [k \in DOMAIN ycols |->
                                       CaloriesOf(row[ycols[k]], row[value])]]]

\* sum() of a sequence of cells: NaN is skipped, the sum of nothing is 0.
RECURSIVE SumCells(_)
SumCells(cells) ==
    IF cells = <<>> THEN Num(0, 1)
    ELSE LET rest == SumCells(Tail(cells))
         IN  IF IsNum(cells[1])
             THEN Num(cells[1][2] * rest[3] + rest[2] * cells[1][3], cells[1][3] * rest[3])
             ELSE rest

\* Line 88: df.groupby("Area")[calorie_cols].sum()
GroupSum(table, calorie_cols) ==
    LET area  == ColumnOf(table, <<"Area">>)
        areas == {table.rows[r][area] : r \in DOMAIN table.rows}
        Of(a) == SelectSeq(table.rows, LAMBDA row : row[area] = a)
    IN  [a \in areas |->
            [k \in DOMAIN calorie_cols |->
                LET c == ColumnOf(table, calorie_cols[k])
                IN  SumCells([r \in DOMAIN Of(a) |-> Of(a)[r][c]])]]

\* Lines 91-93: col.replace("Y", "").replace("_calories", "")
RenamedColumn(col) ==
    SelectSeq(SelectSeq(col, LAMBDA part : part # "Y"), LAMBDA part : part # "_calories")

\* Lines 100 and 105 for one cell: replace(0, pd.NA), then to_numeric.
ReplaceZeroMut(cell) == cell

ReplaceZero(cell) == IF cell = Num(0, 1) THEN NaN ELSE cell

\* Lines 109 and 115: the rows whose area is not name.
DropArea(rows, name) == [a \in DOMAIN rows \ {name} |-> rows[a]]

\* Lines 111 and 113: the area old is named new.
RenameAreaMut(rows, old, new) == rows

RenameArea(rows, old, new) ==
    IF old \in DOMAIN rows
    THEN [a \in (DOMAIN rows \ {old}) \cup {new} |-> IF a = new THEN rows[old] ELSE rows[a]]
    ELSE rows

\* Lines 124 and 126: df_agg.loc[name] = row sets every cell of the row name,
\* and adds the row when there is none.
SetRow(rows, name, row) ==
    [a \in DOMAIN rows \cup {name} |-> IF a = name THEN row ELSE rows[a]]

\* Lines 88-118: the rows by area after set_index.
Indexed(table) ==
    LET summed   == GroupSum(table, CalorieCols(table.columns))
        replaced == [a \in DOMAIN summed |->
                        [k \in DOMAIN summed[a] |-> ReplaceZero(summed[a][k])]]
        china    == DropArea(replaced, "China")
        taiwan   == RenameArea(china, "China, Taiwan Province of", "Taiwan")
        mainland == RenameArea(taiwan, "China, mainland", "China")
    IN  DropArea(mainland, "Singapore")

\* Lines 124-129.
WithSudan(rows) ==
    LET south == SetRow(rows, "South Sudan", rows["Sudan (former)"])
        sudan == SetRow(south, "Sudan", south["Sudan (former)"])
    IN  DropArea(sudan, "Sudan (former)")

\* Lines 99-102: what is printed for a column that holds no value.
EmptyColumns(table, rows) ==
    LET cols == CalorieCols(table.columns)
    IN  {<<"has 0 production for", k, 0>> :
            k \in {j \in DOMAIN cols : \A a \in DOMAIN rows : rows[a][j] = NaN}}

\* The areas of the input tables.
AreaList ==
    <<"USA", "China", "China, mainland", "China, Taiwan Province of", "Singapore",
      "Sudan (former)", "Sudan", "South Sudan">>

\* The one row of an area that is not the free area.
RefProduction(i) == <<AreaList[i], "Maize (corn)", Num(1 + (i % 5), 1), Num(1 + (i % 3), 1)>>

\* The second row of the free area, if any.
SecondRows(area) ==
    {<<>>, <<(<<area, "Potatoes", Num(0, 1), Num(5, 1)>>)>>,
           <<(<<area, "Rice", NaN, Num(2, 1)>>)>>}

\* The rows of the areas i..Len(AreaList) of a table: the area free has the
\* rows given, each area of others has its reference row.
RECURSIVE ProductionRows(_, _, _, _)
ProductionRows(i, free, rows, others) ==
    IF i > Len(AreaList) THEN <<>>
    ELSE (IF i = free THEN rows
          ELSE IF i \in others THEN <<RefProduction(i)>> ELSE <<>>)
         \o ProductionRows(i + 1, free, rows, others)

InitCalories ==
    /\ method = "calculate_yearly_calories"
    /\ args = <<>>
    /\ \E free \in DOMAIN AreaList,
          item \in {"Maize (corn)", "Rice", "Potatoes", "Quinoa"},
          t \in [1..2 -> {NaN, Num(0, 1), Num(2, 1), Num(5, 1)}] :
         \E second \in SecondRows(AreaList[free]),
            others \in SUBSET (DOMAIN AreaList \ {free}) :
             df = [columns |-> <<(<<"Area">>), (<<"Item">>), (<<"Y", "2020">>),
                                 (<<"Y", "2021">>)>>,
                   rows    |-> ProductionRows(1, free,
                                   <<(<<AreaList[free], item, t[1], t[2]>>)>> \o second,
                                   others)]
    /\ pc = "entry"
    /\ df_agg = <<>>
    /\ log = {}
    /\ country = 0
    /\ data = <<>>
    /\ window_length = 0
    /\ pct_changes = <<>>
    /\ calls = <<>>
    /\ calories_df = <<>>
    /\ sorted_shocks = <<>>
    /\ walk = 0
    /\ largest_valid_shock = None
    /\ year_of_shock = None
    /\ results = <<>>
    /\ via = <<>>
    /\ csv = <<>>
    /\ script = 0
    /\ runs = <<>>
    /\ returncodes = <<>>
    /\ exit_code = <<>>
    /\ files = {}
    /\ filtered_df = <<>>

\* Lines 50-73: calculate_calories adds its columns to the table it is given.
CalculateCalories ==
    /\ method = "calculate_yearly_calories" /\ pc = "entry"
    /\ df' = calculate_calories(df)
    /\ pc' = "calculated"
    /\ UNCHANGED <<df_agg, log>>
    /\ UNCHANGED <<method, args, country, changesVars, calories_df, sorted_shocks, walk,
                   largest_valid_shock, year_of_shock, results, via, csv, script,
                   runs, returncodes, exit_code, files, filtered_df>>

\* Lines 88-129 when the table holds the area 'Sudan (former)'.
AggregateReturn ==
    /\ method = "calculate_yearly_calories" /\ pc = "calculated"
    /\ "Sudan (former)" \in DOMAIN Indexed(df)
    /\ df_agg' = [columns |-> LET cols == CalorieCols(df.columns)
                              IN  [k \in DOMAIN cols |-> RenamedColumn(cols[k])],
                  rows    |-> WithSudan(Indexed(df))]
    /\ log' = log \cup EmptyColumns(df, Indexed(df))
    /\ pc' = "returned"
    /\ UNCHANGED df
    /\ UNCHANGED <<method, args, country, changesVars, calories_df, sorted_shocks, walk,
                   largest_valid_shock, year_of_shock, results, via, csv, script,
                   runs, returncodes, exit_code, files, filtered_df>>

\* Line 124: df_agg.loc["Sudan (former)"] raises KeyError when no row has
\* that label.
AggregateKeyError ==
    /\ method = "calculate_yearly_calories" /\ pc = "calculated"
    /\ "Sudan (former)" \notin DOMAIN Indexed(df)
    /\ df_agg' = [columns |-> CalorieCols(df.columns), rows |-> Indexed(df)]
    /\ log' = log \cup EmptyColumns(df, Indexed(df)) \cup {<<"KeyError", 0, 0>>}
    /\ pc' = "raised"
    /\ UNCHANGED df
    /\ UNCHANGED <<method, args, country, changesVars, calories_df, sorted_shocks, walk,
                   largest_valid_shock, year_of_shock, results, via, csv, script,
                   runs, returncodes, exit_code, files, filtered_df>>

NextCalories == CalculateCalories \/ AggregateReturn \/ AggregateKeyError

SpecCalories == InitCalories /\ [][NextCalories]_vars

\* The areas of the input table and, computed from its rows alone, the total
\* of an area for the year column y (1 for 2020, 2 for 2021): the sum over the
\* area's crops of tonnes * 1,000,000 * kcal-per-100g / 100.
InputAreas == {df.rows[r][1] : r \in DOMAIN df.rows}

RECURSIVE TotalFrom(_, _, _)
TotalFrom(r, a, y) ==
    IF r > Len(df.rows) THEN 0
    ELSE (IF df.rows[r][1] = a /\ df.rows[r][2 + y][1] = 2
             /\ df.rows[r][2] \in DOMAIN CALORIE_VALUES
          THEN df.rows[r][2 + y][2] * CALORIE_VALUES[df.rows[r][2]] * 10000
          ELSE 0)
         + TotalFrom(r + 1, a, y)

OwnTotal(a, y) == TotalFrom(1, a, y)

PlainYear(y) == <<IF y = 1 THEN "2020" ELSE "2021">>

\* The cell of df_agg for the area a and the column named by the plain year.
AggCell(a, y) == df_agg.rows[a][ColumnOf(df_agg, PlainYear(y))]

\* A total as a cell of the result: 0 is a missing value.
TotalCell(total) == IF total = 0 THEN <<1>> ELSE <<2, total, 1>>

\* C22: for every input table, aggregate_calories_by_country applied to the
\* output of calculate_calories returns without raising, and each area's
\* value for a year, under the column named by the plain year, is the sum
\* over the area's crops of tonnes * 1,000,000 * kcal-per-100g / 100.
ClaimC22 ==
    (method = "calculate_yearly_calories" /\ pc \in {"returned", "raised"}) =>
        /\ pc = "returned"
        /\ \A a \in InputAreas :
             /\ a \in DOMAIN df_agg.rows
             /\ \A y \in 1..2 :
                  /\ ColumnOf(df_agg, PlainYear(y)) # 0
                  /\ AggCell(a, y) = <<2, OwnTotal(a, y), 1>>

\* The areas the function treats by name.
NamedAreas == {"China", "Singapore", "Sudan (former)", "Sudan", "South Sudan"}

ResultName(a) ==
    IF a = "China, mainland" THEN "China"
    ELSE IF a = "China, Taiwan Province of" THEN "Taiwan" ELSE a

\* C26: no cell of the returned table equals 0; an area-year whose summed
\* calories are 0, or that has no production recorded, is a missing value.
TheoremC26 ==
    (method = "calculate_yearly_calories" /\ pc = "returned") =>
        /\ \A a \in DOMAIN df_agg.rows : \A k \in DOMAIN df_agg.rows[a] :
             ~(df_agg.rows[a][k][1] = 2 /\ df_agg.rows[a][k][2] = 0)
        /\ \A a \in InputAreas \ NamedAreas : \A y \in 1..2 :
             OwnTotal(a, y) = 0 => AggCell(ResultName(a), y) = <<1>>
        /\ \A y \in 1..2 :
             OwnTotal("Sudan (former)", y) = 0 =>
                 AggCell("Sudan", y) = <<1>> /\ AggCell("South Sudan", y) = <<1>>

WitnessC26 ==
    /\ method = "calculate_yearly_calories" /\ pc = "returned"
    /\ \E a \in InputAreas \ NamedAreas :
         /\ OwnTotal(a, 1) = 0 /\ OwnTotal(a, 2) > 0
         /\ \A r \in DOMAIN df.rows :
              df.rows[r][1] = a =>
                  df.rows[r][3] = <<2, 0, 1>> /\ df.rows[r][2] \in DOMAIN CALORIE_VALUES
         /\ AggCell(ResultName(a), 1) = <<1>>

\* C27: only the missing years of 'South Sudan' and 'Sudan' are filled with
\* the values of 'Sudan (former)'; the years for which the two areas have
\* their own data keep it, and the result has no row 'Sudan (former)'.
ClaimC27 ==
    (method = "calculate_yearly_calories" /\ pc = "returned") =>
        /\ "Sudan (former)" \notin DOMAIN df_agg.rows
        /\ \A s \in {"South Sudan", "Sudan"} : \A y \in 1..2 :
             AggCell(s, y) =
                 IF OwnTotal(s, y) # 0 THEN <<2, OwnTotal(s, y), 1>>
                 ELSE TotalCell(OwnTotal("Sudan (former)", y))

\* C28: in the returned table the row 'China' holds the totals of the input
\* area 'China, mainland', the row 'Taiwan' those of 'China, Taiwan Province
\* of', the totals of the input area 'China' are under no name, and there
\* is no row 'Singapore'.
TheoremC28 ==
    (method = "calculate_yearly_calories" /\ pc = "returned") =>
        /\ DOMAIN df_agg.rows =
             {ResultName(a) : a \in InputAreas \ {"China", "Singapore", "Sudan (former)"}}
                 \cup {"South Sudan", "Sudan"}
        /\ "Singapore" \notin DOMAIN df_agg.rows
        /\ \A a \in {"China, mainland", "China, Taiwan Province of"} \cap InputAreas :
             \A y \in 1..2 : AggCell(ResultName(a), y) = TotalCell(OwnTotal(a, y))

WitnessC28 ==
    /\ method = "calculate_yearly_calories" /\ pc = "returned"
    /\ {"China", "China, mainland", "China, Taiwan Province of", "Singapore"}
           \subseteq InputAreas
    /\ OwnTotal("China, mainland", 1) # OwnTotal("China", 1)
    /\ OwnTotal("China, mainland", 2) = 0
    /\ AggCell("China", 1) = <<2, OwnTotal("China, mainland", 1), 1>>

====
